---- MODULE Spec2Model ----
(***************************************************************************)
(* Model of ads_mcp/tools/mutations.py: five tools that build mutation     *)
(* operations, submit them to the remote GoogleAdsService and map the      *)
(* response or the exception into a result dict.                           *)
(*                                                                         *)
(* Conventions.  A Python str is a sequence of tokens (<<>> is ''), so     *)
(* that formatting, joining and splitting are computed.  An Optional       *)
(* argument is <<>> for None and <<v>> for a value v.  A resource name     *)
(* 'a/b/c/d' is the sequence of its '/'-separated segments.                *)
(***************************************************************************)
EXTENDS Integers, Sequences, FiniteSets, TLC

VARIABLES
    pc,                 \* "idle" | "search" | "mutate" | "done": position of the one synchronous invocation
    tool,               \* name of the tool being invoked ("" when idle)
    args,               \* its arguments
    mutate_operations,  \* the operations the invocation has built
    budget_updated,     \* update_campaign's local flag
    nSearch,            \* search_stream calls made by this invocation
    nMutate,            \* mutate calls made by this invocation
    sent,               \* the mutate requests submitted by this invocation, in order
    search_result,      \* <<>> or <<stream>>: what search_stream yielded to update_campaign
    response,           \* <<>> or <<responses>>: mutate_operation_responses of the mutate that returned
    raised,             \* <<>> or <<ex>>: the exception the remote service raised into this invocation
    result,             \* <<>> or <<dict>>: what the invocation returned
    platform            \* the remote service's resources

vars == <<pc, tool, args, mutate_operations, budget_updated, nSearch, nMutate,
          sent, search_result, response, raised, result, platform>>

\* ------------------------------------------------------------------ bounds
MaxHeadlines == 4
MaxDescriptions == 3
MaxErrors == 2
MaxIds == 2

\* ------------------------------------------------------- python primitives
None == <<>>
Some(v) == <<v>>
IsNone(o) == o = <<>>

\* The value assigned to a message field from an Optional: the field's proto
\* default when nothing is assigned.
FieldValue(o, default) == IF o = <<>> THEN default ELSE o[1]

\* bool(s) of an Optional[str] whose value is a one-token string or ''.
TruthyOpt(o) == o # <<>> /\ o[1] # ""

RECURSIVE Join(_, _)
\* sep.join(parts): parts is a sequence of strings (token sequences).
Join(sep, parts) ==
    IF parts = <<>> THEN <<>>
    ELSE IF Len(parts) = 1 THEN parts[1]
    ELSE parts[1] \o sep \o Join(sep, Tail(parts))

\* s.split("/")[-1] of a resource name kept as its segments.
LastSegment(rn) == IF rn = <<>> THEN "" ELSE rn[Len(rn)]

\* ----------------------------------------------------------- vendor enums
CampaignStatus == {"UNSPECIFIED", "UNKNOWN", "ENABLED", "PAUSED", "REMOVED"}
AdvertisingChannelType == {"UNSPECIFIED", "UNKNOWN", "SEARCH", "DISPLAY", "SHOPPING", "VIDEO"}
BudgetDeliveryMethod == {"UNSPECIFIED", "UNKNOWN", "STANDARD", "ACCELERATED"}
AdGroupStatus == {"UNSPECIFIED", "UNKNOWN", "ENABLED", "PAUSED", "REMOVED"}
KeywordMatchType == {"UNSPECIFIED", "UNKNOWN", "EXACT", "PHRASE", "BROAD"}

\* getattr(enum, name) raises AttributeError when the enum has no such member.
AttributeError(name) == [kind |-> "Exception", str |-> <<"AttributeError: ", name>>]
IndexError == [kind |-> "Exception", str |-> <<"list index out of range">>]

\* ---------------------------------------------------------- result shapes
Failure(msg) == [success |-> FALSE, error |-> msg]

\* _extract_error_details(ex): '<error_code>: <message>' per error, joined by '; '.
ErrorMessage(error) == <<error.error_code, ": ", error.message>>

ErrorMessagesReversed(ex) ==
    [i \in 1..Len(ex.errors) |-> ErrorMessage(ex.errors[Len(ex.errors) + 1 - i])]
\* Lines 25-29: one entry per error, in the order of ex.failure.errors.
ErrorMessages(ex) == [i \in 1..Len(ex.errors) |-> ErrorMessage(ex.errors[i])]

_extract_error_details(ex) ==
    LET error_messages == ErrorMessages(ex)
    IN  IF error_messages # <<>> THEN Join(<<"; ">>, error_messages) ELSE ex.str

\* An exception that no except clause catches leaves the tool.
Propagates(ex) == [propagated |-> ex]

ExceptResultGoogleAdsOnly(ex) ==
    IF ex.kind = "GoogleAdsException"
    THEN Failure(_extract_error_details(ex))
    ELSE Propagates(ex)
\* The two except clauses every tool ends with: GoogleAdsException, then
\* Exception.
ExceptResult(ex) ==
    IF ex.kind = "GoogleAdsException"
    THEN Failure(_extract_error_details(ex))
    ELSE IF ex.kind = "Exception"
    THEN Failure(ex.str)
    ELSE Propagates(ex)

\* -------------------------------------------------------- resource names
\* f"customers/{customer_id}/<collection>/{id}"
ResourceName(customer_id, collection, id) == <<"customers", customer_id, collection, id>>

temp_budget_id == -1
default_cpc_bid_micros == 1000000

\* The campaign's link to the budget created in the same request (line 92).
TempBudgetName(customer_id) == ResourceName(customer_id, "campaignBudgets", ToString(temp_budget_id))

\* ------------------------------------------------------------ create_campaign
\* The first getattr that raises, in the order the code evaluates them.
CreateCampaignRaises(a) ==
    IF a.budget_delivery_method \notin BudgetDeliveryMethod
    THEN Some(AttributeError(a.budget_delivery_method))
    ELSE IF a.advertising_channel_type \notin AdvertisingChannelType
    THEN Some(AttributeError(a.advertising_channel_type))
    ELSE IF a.status \notin CampaignStatus
    THEN Some(AttributeError(a.status))
    ELSE None

CampaignBudgetCreate(a) ==
    [kind |-> "campaign_budget_operation", op |-> "create",
     resource_name |-> ResourceName(a.customer_id, "campaignBudgets", ToString(temp_budget_id)),
     name |-> a.name \o <<" Budget">>,
     amount_micros |-> a.budget_amount_micros,
     delivery_method |-> a.budget_delivery_method,
     explicitly_shared |-> FALSE]

CampaignCreate(a) ==
    [kind |-> "campaign_operation", op |-> "create",
     name |-> a.name,
     advertising_channel_type |-> a.advertising_channel_type,
     status |-> a.status,
     campaign_budget |-> TempBudgetName(a.customer_id),
     network_settings |->
        IF a.advertising_channel_type = "SEARCH"
        THEN Some([target_google_search |-> TRUE, target_search_network |-> TRUE,
                   target_content_network |-> FALSE,
                   target_partner_search_network |-> FALSE])
        ELSE None]

CreateCampaignOperationsReversed(a) == <<CampaignCreate(a), CampaignBudgetCreate(a)>>
\* mutate_operations=[campaign_budget_operation, campaign_operation]
CreateCampaignOperations(a) == <<CampaignBudgetCreate(a), CampaignCreate(a)>>

\* ------------------------------------------------------------ create_ad_group
CreateAdGroupRaises(a) ==
    IF a.status \notin AdGroupStatus THEN Some(AttributeError(a.status)) ELSE None

AdGroupCreate(a) ==
    [kind |-> "ad_group_operation", op |-> "create",
     name |-> a.name,
     campaign |-> ResourceName(a.customer_id, "campaigns", a.campaign_id),
     status |-> a.status,
     cpc_bid_micros |-> a.cpc_bid_micros]

\* ------------------------------------------------- create_responsive_search_ad
HeadlinesError == <<"At least 3 headlines are required for a responsive search ad">>
DescriptionsError == <<"At least 2 descriptions are required for a responsive search ad">>

RsaValidationOffByOne(a) ==
    IF Len(a.headlines) < 2 THEN Some(Failure(HeadlinesError))
    ELSE IF Len(a.descriptions) < 2 THEN Some(Failure(DescriptionsError))
    ELSE None
\* The two early returns (lines 251-260): <<>> when the arguments pass.
RsaValidation(a) ==
    IF Len(a.headlines) < 3 THEN Some(Failure(HeadlinesError))
    ELSE IF Len(a.descriptions) < 2 THEN Some(Failure(DescriptionsError))
    ELSE None

AdTextAssets(texts) == [i \in 1..Len(texts) |-> [text |-> texts[i]]]

\* `if path1:` / `if path2:` -- each path is set on its own truthiness; an unset
\* field of the message is None here.
RsaPath1(a) == IF TruthyOpt(a.path1) THEN a.path1 ELSE None
RsaPath2(a) == IF TruthyOpt(a.path2) THEN a.path2 ELSE None

AdGroupAdCreate(a) ==
    [kind |-> "ad_group_ad_operation", op |-> "create",
     ad_group |-> ResourceName(a.customer_id, "adGroups", a.ad_group_id),
     status |-> "ENABLED",
     final_urls |-> a.final_urls,
     headlines |-> AdTextAssets(a.headlines),
     descriptions |-> AdTextAssets(a.descriptions),
     path1 |-> RsaPath1(a),
     path2 |-> RsaPath2(a)]

\* ------------------------------------------------------------- create_keyword
CreateKeywordRaises(a) ==
    IF a.match_type \notin KeywordMatchType THEN Some(AttributeError(a.match_type)) ELSE None

AdGroupCriterionCreate(a) ==
    [kind |-> "ad_group_criterion_operation", op |-> "create",
     ad_group |-> ResourceName(a.customer_id, "adGroups", a.ad_group_id),
     status |-> "ENABLED",
     keyword |-> [text |-> a.text, match_type |-> a.match_type],
     cpc_bid_micros |-> a.cpc_bid_micros]

\* ------------------------------------------------------------ update_campaign
NothingToUpdateError ==
    <<"At least one field to update must be provided (status, name, or budget_amount_micros)">>
NoValidUpdatesError == <<"No valid updates to perform">>

UpdateNothingProvidedNever(a) == FALSE
\* line 441
UpdateNothingProvided(a) ==
    IsNone(a.status) /\ IsNone(a.name) /\ IsNone(a.budget_amount_micros)

BudgetRequestedAlways(a) == TRUE
\* line 453
BudgetRequested(a) == ~IsNone(a.budget_amount_micros)

FirstBudgetAnyBatch(stream) ==
    LET hits == {i \in 1..Len(stream) : stream[i] # <<>>}
    IN  IF hits = {} THEN None
        ELSE stream[CHOOSE i \in hits : \A j \in hits : i <= j][1]
\* Lines 465-470: the first row of the first batch, None when there is none.
FirstBudget(stream) ==
    IF stream = <<>> THEN None
    ELSE IF stream[1] = <<>> THEN None
    ELSE stream[1][1]

CampaignBudgetUpdate(a, budget_resource_name) ==
    [kind |-> "campaign_budget_operation", op |-> "update",
     resource_name |-> budget_resource_name,
     amount_micros |-> FieldValue(a.budget_amount_micros, 0),
     update_mask |-> <<"amount_micros">>]

\* Lines 472-483: the operations and the flag after the budget lookup.
BudgetOperations(a, budget_resource_name) ==
    IF budget_resource_name # <<>>
    THEN <<CampaignBudgetUpdate(a, budget_resource_name)>>
    ELSE <<>>

UpdateMaskPathsAll(a) == <<"status", "name">>
\* Lines 493-501
UpdateMaskPaths(a) ==
    (IF ~IsNone(a.status) THEN <<"status">> ELSE <<>>)
    \o (IF ~IsNone(a.name) THEN <<"name">> ELSE <<>>)

CampaignUpdate(a) ==
    [kind |-> "campaign_operation", op |-> "update",
     resource_name |-> ResourceName(a.customer_id, "campaigns", a.campaign_id),
     status |-> a.status,
     name |-> a.name,
     update_mask |-> UpdateMaskPaths(a)]

UpdateCampaignRaises(a) ==
    IF ~IsNone(a.status) /\ a.status[1] \notin CampaignStatus
    THEN Some(AttributeError(a.status[1]))
    ELSE None

\* Lines 485-507
CampaignOperations(a) ==
    IF ~IsNone(a.status) \/ ~IsNone(a.name) THEN <<CampaignUpdate(a)>> ELSE <<>>

\* ---------------------------------------------------------- inputs (bounded)
Customers == {"c1"}
ExistingCampaignId == "7"
ExistingBudgetId == "70"
ExistingAdGroupId == "8"
CampaignIds == {ExistingCampaignId, "9"}
AdGroupIds == {ExistingAdGroupId}
Names == {<<"n1">>}
Amounts == {1}

Texts(n) == [i \in 1..n |-> <<"t">>]
OptPaths == {None, Some(""), Some("p")}

CreateCampaignArgs ==
    [customer_id : Customers, name : {<<"n1">>}, budget_amount_micros : {1},
     advertising_channel_type : {"SEARCH", "DISPLAY", "BOGUS"},
     status : {"PAUSED", "BOGUS"},
     budget_delivery_method : {"STANDARD", "BOGUS"}]

CreateAdGroupArgs ==
    [customer_id : Customers, campaign_id : CampaignIds, name : {<<"n1">>},
     cpc_bid_micros : {default_cpc_bid_micros}, status : {"ENABLED", "BOGUS"}]

CreateRsaArgs ==
    [customer_id : Customers, ad_group_id : AdGroupIds,
     headlines : {Texts(n) : n \in 0..MaxHeadlines},
     descriptions : {Texts(n) : n \in 0..MaxDescriptions},
     final_urls : {<<"u">>},
     path1 : OptPaths, path2 : OptPaths]

CreateKeywordArgs ==
    [customer_id : Customers, ad_group_id : AdGroupIds, text : {<<"kw">>},
     match_type : {"BROAD", "BOGUS"}, cpc_bid_micros : {None, Some(5)}]

UpdateCampaignArgs ==
    [customer_id : Customers, campaign_id : CampaignIds,
     status : {None, Some("PAUSED"), Some("BOGUS")},
     name : {None} \cup {Some(n) : n \in Names},
     budget_amount_micros : {None} \cup {Some(m) : m \in Amounts}]

\* ------------------------------------------------------- the remote service
ErrorCodes == {"e1", "e2"}
GoogleAdsErrors == [error_code : ErrorCodes, message : {"m"}]

SeqsUpTo(S, n) == UNION {[1..k -> S] : k \in 0..n}

\* What the remote calls can raise: a GoogleAdsException carrying a list of
\* errors, or any other Exception (transport failure, ...).
GoogleAdsExceptions ==
    {[kind |-> "GoogleAdsException", errors |-> es, str |-> <<"GoogleAdsException()">>] :
        es \in SeqsUpTo(GoogleAdsErrors, MaxErrors)}
OtherExceptions == {[kind |-> "Exception", str |-> <<"connection reset">>]}

ExistingBudgetName(customer_id) == ResourceName(customer_id, "campaignBudgets", ExistingBudgetId)

\* What search_stream can yield for the query of lines 456-460: batches of
\* rows, each row reduced to its campaign.campaign_budget ('' is <<>>).
SearchStreams(a) ==
    LET B == ExistingBudgetName(a.customer_id)
    IN  {<<>>, << <<>> >>, << << <<>> >> >>}
        \cup (IF a.campaign_id = ExistingCampaignId
              THEN {<< <<B>> >>, << <<B>>, <<B>> >>, << <<>>, <<B>> >>}
              ELSE {})

InitPlatform ==
    [nextId |-> 0, created |-> {},
     status |-> "ENABLED", name |-> <<"n0">>, amount_micros |-> 0]

Exists(p, rn) ==
    \/ rn[3] = "campaigns" /\ rn[4] = ExistingCampaignId
    \/ rn[3] = "campaignBudgets" /\ rn[4] = ExistingBudgetId
    \/ rn[3] = "adGroups" /\ rn[4] = ExistingAdGroupId
    \/ \E r \in p.created : r.kind = rn[3] /\ r.id = rn[4]

Resolve(temps, rn) ==
    IF \E t \in temps : t[1] = rn
    THEN (CHOOSE t \in temps : t[1] = rn)[2]
    ELSE rn

\* One operation applied to the running state st = [ok, p, temps, responses].
ApplyCreate(st, customer_id, op, collection, result_kind, ref) ==
    LET id == ToString(st.p.nextId + 1)
        rn == ResourceName(customer_id, collection, id)
        parent == Resolve(st.temps, ref)
    IN  IF st.p.nextId >= MaxIds \/ (ref # <<>> /\ ~Exists(st.p, parent))
        THEN [st EXCEPT !.ok = FALSE]
        ELSE [ok |-> TRUE,
              p |-> [st.p EXCEPT !.nextId = @ + 1,
                                 !.created = @ \cup {[kind |-> collection, id |-> id, ref |-> parent]}],
              temps |-> IF "resource_name" \in DOMAIN op
                        THEN st.temps \cup {<<op.resource_name, rn>>} ELSE st.temps,
              responses |-> Append(st.responses, [kind |-> result_kind, resource_name |-> rn])]

ApplyUpdate(st, customer_id, op) ==
    IF op.kind = "campaign_operation"
    THEN IF op.resource_name # ResourceName(customer_id, "campaigns", ExistingCampaignId)
         THEN [st EXCEPT !.ok = FALSE]
         ELSE LET has(f) == \E i \in 1..Len(op.update_mask) : op.update_mask[i] = f
              IN  [st EXCEPT
                     !.p.status = IF has("status") THEN FieldValue(op.status, "UNSPECIFIED") ELSE @,
                     !.p.name = IF has("name") THEN FieldValue(op.name, <<>>) ELSE @,
                     !.responses = Append(@, [kind |-> "campaign_result",
                                               resource_name |-> op.resource_name])]
    ELSE IF op.resource_name # ExistingBudgetName(customer_id)
         THEN [st EXCEPT !.ok = FALSE]
         ELSE [st EXCEPT
                 !.p.amount_micros = op.amount_micros,
                 !.responses = Append(@, [kind |-> "campaign_budget_result",
                                           resource_name |-> op.resource_name])]

ApplyOp(st, customer_id, op) ==
    IF ~st.ok THEN st
    ELSE IF op.op = "update" THEN ApplyUpdate(st, customer_id, op)
    ELSE IF op.kind = "campaign_budget_operation"
    THEN ApplyCreate(st, customer_id, op, "campaignBudgets", "campaign_budget_result", <<>>)
    ELSE IF op.kind = "campaign_operation"
    THEN ApplyCreate(st, customer_id, op, "campaigns", "campaign_result", op.campaign_budget)
    ELSE IF op.kind = "ad_group_operation"
    THEN ApplyCreate(st, customer_id, op, "adGroups", "ad_group_result", op.campaign)
    ELSE IF op.kind = "ad_group_ad_operation"
    THEN ApplyCreate(st, customer_id, op, "ads", "ad_group_ad_result", op.ad_group)
    ELSE ApplyCreate(st, customer_id, op, "criteria", "ad_group_criterion_result", op.ad_group)

RECURSIVE ApplyOps(_, _, _)
ApplyOps(st, customer_id, ops) ==
    IF ops = <<>> THEN st
    ELSE ApplyOps(ApplyOp(st, customer_id, Head(ops)), customer_id, Tail(ops))

\* GoogleAdsService.mutate is atomic: the request's operations all take effect
\* or none does.  [ok, p, responses]
Mutate(p, request) ==
    LET st == ApplyOps([ok |-> TRUE, p |-> p, temps |-> {}, responses |-> <<>>],
                       request.customer_id, request.mutate_operations)
    IN  IF st.ok THEN st ELSE [st EXCEPT !.p = p, !.responses = <<>>]

\* ------------------------------------------------- mapping of the response
\* response.mutate_operation_responses[i].<field>.resource_name; a result field
\* that is not the one set in the response reads as the empty message.
ResultName(resp, field) == IF resp.kind = field THEN resp.resource_name ELSE <<>>

\* Lines 111-127
CreateCampaignResult(responses) ==
    IF Len(responses) < 2 THEN ExceptResult(IndexError)
    ELSE LET budget_result == ResultName(responses[1], "campaign_budget_result")
             campaign_result == ResultName(responses[2], "campaign_result")
         IN  [success |-> TRUE,
              campaign_resource_name |-> campaign_result,
              campaign_id |-> LastSegment(campaign_result),
              budget_resource_name |-> budget_result]

\* Lines 192-203
CreateAdGroupResult(responses) ==
    IF Len(responses) < 1 THEN ExceptResult(IndexError)
    ELSE LET ad_group_result == ResultName(responses[1], "ad_group_result")
         IN  [success |-> TRUE,
              ad_group_resource_name |-> ad_group_result,
              ad_group_id |-> LastSegment(ad_group_result)]

\* Lines 304-313
CreateRsaResult(responses) ==
    IF Len(responses) < 1 THEN ExceptResult(IndexError)
    ELSE [success |-> TRUE,
          ad_group_ad_resource_name |-> ResultName(responses[1], "ad_group_ad_result")]

\* Lines 387-396
CreateKeywordResult(responses) ==
    IF Len(responses) < 1 THEN ExceptResult(IndexError)
    ELSE [success |-> TRUE,
          ad_group_criterion_resource_name |->
              ResultName(responses[1], "ad_group_criterion_result")]

\* Lines 528-532: the response is not read.
UpdateCampaignResult(a, updated) ==
    [success |-> TRUE,
     campaign_resource_name |-> ResourceName(a.customer_id, "campaigns", a.campaign_id),
     budget_updated |-> updated]

MapResponse(t, a, updated, responses) ==
    CASE t = "create_campaign" -> CreateCampaignResult(responses)
      [] t = "create_ad_group" -> CreateAdGroupResult(responses)
      [] t = "create_responsive_search_ad" -> CreateRsaResult(responses)
      [] t = "create_keyword" -> CreateKeywordResult(responses)
      [] OTHER -> UpdateCampaignResult(a, updated)

\* ------------------------------------------------------- steps of a call
MutateRequestFirstOnly(customer_id, ops) ==
    [customer_id |-> customer_id, mutate_operations |-> SubSeq(ops, 1, 1)]
\* ga_service.mutate(customer_id=customer_id, mutate_operations=...)
MutateRequest(customer_id, ops) ==
    [customer_id |-> customer_id, mutate_operations |-> ops]

Init ==
    /\ pc = "idle"
    /\ tool = ""
    /\ args = <<>>
    /\ mutate_operations = <<>>
    /\ budget_updated = FALSE
    /\ nSearch = 0
    /\ nMutate = 0
    /\ sent = <<>>
    /\ search_result = <<>>
    /\ response = <<>>
    /\ raised = <<>>
    /\ result = <<>>
    /\ platform = InitPlatform

\* The call enters the tool with arguments a.
Enter(t, a) ==
    /\ pc = "idle"
    /\ tool' = t
    /\ args' = a
    /\ UNCHANGED <<search_result, response, raised, platform>>

\* The tool returns res without (further) remote calls.
Returns(res, ops) ==
    /\ pc' = "done"
    /\ result' = Some(res)
    /\ mutate_operations' = ops
    /\ UNCHANGED <<nMutate, sent>>

\* The tool calls ga_service.mutate with ops and waits for the response.
Submits(customer_id, ops) ==
    /\ pc' = "mutate"
    /\ mutate_operations' = ops
    /\ nMutate' = nMutate + 1
    /\ sent' = Append(sent, MutateRequest(customer_id, ops))
    /\ UNCHANGED result

\* A tool whose local code is: getattr lookups, build ops, mutate.
BuildAndSubmit(a, raises, ops) ==
    /\ UNCHANGED <<nSearch, budget_updated>>
    /\ IF raises # None
       THEN Returns(ExceptResult(raises[1]), <<>>)
       ELSE Submits(a.customer_id, ops)

create_campaign ==
    \E a \in CreateCampaignArgs :
        /\ Enter("create_campaign", a)
        /\ BuildAndSubmit(a, CreateCampaignRaises(a), CreateCampaignOperations(a))

create_ad_group ==
    \E a \in CreateAdGroupArgs :
        /\ Enter("create_ad_group", a)
        /\ BuildAndSubmit(a, CreateAdGroupRaises(a), <<AdGroupCreate(a)>>)

create_responsive_search_ad ==
    \E a \in CreateRsaArgs :
        /\ Enter("create_responsive_search_ad", a)
        /\ UNCHANGED <<nSearch, budget_updated>>
        /\ IF RsaValidation(a) # None
           THEN Returns(RsaValidation(a)[1], <<>>)
           ELSE Submits(a.customer_id, <<AdGroupAdCreate(a)>>)

create_keyword ==
    \E a \in CreateKeywordArgs :
        /\ Enter("create_keyword", a)
        /\ BuildAndSubmit(a, CreateKeywordRaises(a), <<AdGroupCriterionCreate(a)>>)

\* Lines 485-522 of update_campaign, entered with the operations built so far.
UpdateCampaignFinish(a, ops) ==
    IF (~IsNone(a.status) \/ ~IsNone(a.name)) /\ UpdateCampaignRaises(a) # None
    THEN Returns(ExceptResult(UpdateCampaignRaises(a)[1]), ops)
    ELSE LET all == ops \o CampaignOperations(a)
         IN  IF all = <<>>
             THEN Returns(Failure(NoValidUpdatesError), all)
             ELSE Submits(a.customer_id, all)

update_campaign ==
    \E a \in UpdateCampaignArgs :
        /\ Enter("update_campaign", a)
        /\ budget_updated' = FALSE
        /\ IF UpdateNothingProvided(a)
           THEN Returns(Failure(NothingToUpdateError), <<>>) /\ UNCHANGED nSearch
           ELSE IF BudgetRequested(a)
           THEN /\ pc' = "search"
                /\ nSearch' = nSearch + 1
                /\ mutate_operations' = <<>>
                /\ UNCHANGED <<nMutate, sent, result>>
           ELSE UpdateCampaignFinish(a, <<>>) /\ UNCHANGED nSearch

\* search_stream yields its batches; update_campaign goes on to the mutate.
SearchStreamReturns ==
    /\ pc = "search"
    /\ \E stream \in SearchStreams(args) :
        LET ops == BudgetOperations(args, FirstBudget(stream))
        IN  /\ budget_updated' = (ops # <<>>)
            /\ search_result' = Some(stream)
            /\ UpdateCampaignFinish(args, ops)
    /\ UNCHANGED <<tool, args, nSearch, response, raised, platform>>

SearchStreamRaises ==
    /\ pc = "search"
    /\ \E ex \in GoogleAdsExceptions \cup OtherExceptions :
        /\ raised' = Some(ex)
        /\ Returns(ExceptResult(ex), mutate_operations)
    /\ UNCHANGED <<tool, args, nSearch, budget_updated, search_result, response, platform>>

\* The remote service carries out the request and the tool maps the response.
MutateReturns ==
    /\ pc = "mutate"
    /\ LET m == Mutate(platform, sent[Len(sent)])
       IN  /\ m.ok
           /\ platform' = m.p
           /\ \E n \in {Len(m.responses), Len(m.responses) - 1} :
                LET responses == SubSeq(m.responses, 1, n)
                IN  /\ response' = Some(responses)
                    /\ Returns(MapResponse(tool, args, budget_updated, responses),
                               mutate_operations)
    /\ UNCHANGED <<tool, args, nSearch, budget_updated, search_result, raised>>

\* The remote service rejects the request: nothing changes on the platform.
MutateRaisesGoogleAdsException ==
    /\ pc = "mutate"
    /\ \E ex \in GoogleAdsExceptions :
        /\ raised' = Some(ex)
        /\ Returns(ExceptResult(ex), mutate_operations)
    /\ UNCHANGED <<tool, args, nSearch, budget_updated, search_result, response, platform>>

\* The call fails some other way; the request may or may not have been carried out.
MutateRaisesException ==
    /\ pc = "mutate"
    /\ \E ex \in OtherExceptions :
        /\ raised' = Some(ex)
        /\ Returns(ExceptResult(ex), mutate_operations)
    /\ \E applied \in BOOLEAN :
        LET m == Mutate(platform, sent[Len(sent)])
        IN  platform' = IF applied /\ m.ok THEN m.p ELSE platform
    /\ UNCHANGED <<tool, args, nSearch, budget_updated, search_result, response>>

\* The caller has the result; the next invocation may start.
Return ==
    /\ pc = "done"
    /\ pc' = "idle"
    /\ tool' = ""
    /\ args' = <<>>
    /\ mutate_operations' = <<>>
    /\ budget_updated' = FALSE
    /\ nSearch' = 0
    /\ nMutate' = 0
    /\ sent' = <<>>
    /\ search_result' = <<>>
    /\ response' = <<>>
    /\ raised' = <<>>
    /\ result' = <<>>
    /\ UNCHANGED platform

Next ==
    \/ create_campaign
    \/ create_ad_group
    \/ create_responsive_search_ad
    \/ create_keyword
    \/ update_campaign
    \/ SearchStreamReturns
    \/ SearchStreamRaises
    \/ MutateReturns
    \/ MutateRaisesGoogleAdsException
    \/ MutateRaisesException
    \/ Return

Spec == Init /\ [][Next]_vars

\* =================================================================== claims
Requests == {sent[i] : i \in 1..Len(sent)}
OpsOf(request, k, o) ==
    {i \in 1..Len(request.mutate_operations) :
        request.mutate_operations[i].kind = k /\ request.mutate_operations[i].op = o}

\* The number of operations each tool builds before it calls mutate.
BuiltCount ==
    CASE tool = "create_campaign" -> 2
      [] tool = "update_campaign" ->
            (IF budget_updated THEN 1 ELSE 0)
            + (IF ~IsNone(args.status) \/ ~IsNone(args.name) THEN 1 ELSE 0)
      [] OTHER -> 1

\* C1: an invocation of any tool submits at most one mutate request, that
\* request carries every operation the invocation built, and a request that
\* raised is not submitted again: once the remote call has raised, the
\* invocation has returned and still counts one request.
C1_SingleMutateRequest ==
    /\ nMutate <= 1
    /\ Len(sent) = nMutate
    /\ \A i \in 1..Len(sent) :
          /\ sent[i].mutate_operations = mutate_operations
          /\ Len(sent[i].mutate_operations) = BuiltCount
          /\ sent[i].customer_id = args.customer_id
    /\ (raised # <<>> => pc = "done")
    /\ (pc = "mutate" => nMutate = 1)

\* A create_campaign whose one request (two operations) raised and was not retried.
C1_Witness ==
    /\ tool = "create_campaign" /\ pc = "done"
    /\ raised # <<>> /\ nMutate = 1
    /\ Len(sent[1].mutate_operations) = 2

\* C2 as stated: over any invocation the remote calls (search_stream queries
\* plus mutate requests) number at most one.
C2_AtMostOneRemoteCall == nSearch + nMutate <= 1

\* C2 amended: an invocation makes at most one search_stream query and at most
\* one mutate request; only update_campaign called with budget_amount_micros
\* queries, so only it can make two remote calls (the query, then the mutate).
C2_AtMostOneOfEach ==
    /\ nSearch <= 1
    /\ nMutate <= 1
    /\ (nSearch = 1 =>
          tool = "update_campaign" /\ ~IsNone(args.budget_amount_micros))
    /\ (pc = "search" => nMutate = 0)

\* An update_campaign that queried and then mutated.
C2_Witness ==
    /\ tool = "update_campaign" /\ pc = "done"
    /\ nSearch = 1 /\ nMutate = 1

ResourceKeys ==
    CASE tool = "create_campaign" ->
            {"campaign_resource_name", "campaign_id", "budget_resource_name"}
      [] tool = "create_ad_group" -> {"ad_group_resource_name", "ad_group_id"}
      [] tool = "create_responsive_search_ad" -> {"ad_group_ad_resource_name"}
      [] tool = "create_keyword" -> {"ad_group_criterion_resource_name"}
      [] tool = "update_campaign" -> {"campaign_resource_name", "budget_updated"}
      [] OTHER -> {}

AllResourceKeys ==
    {"campaign_resource_name", "campaign_id", "budget_resource_name",
     "ad_group_resource_name", "ad_group_id", "ad_group_ad_resource_name",
     "ad_group_criterion_resource_name", "budget_updated"}

\* C3: whatever the remote service does (returns, raises GoogleAdsException,
\* raises another Exception), the invocation ends with a returned dict and no
\* propagated exception; the dict has a boolean 'success'; a failure has an
\* 'error' string and no resource-name key; a success has the tool's
\* resource-name keys and no 'error'.  A remote call that raised always ends
\* the invocation with a failure.
C3_UniformResult ==
    /\ (pc = "done") = (result # <<>>)
    /\ (raised # <<>> => pc = "done")
    /\ \A i \in 1..Len(result) :
        LET r == result[i]
        IN  /\ "propagated" \notin DOMAIN r
            /\ "success" \in DOMAIN r
            /\ r.success \in BOOLEAN
            /\ (raised # <<>> => ~r.success)
            /\ IF r.success
               THEN /\ ResourceKeys \subseteq DOMAIN r
                    /\ "error" \notin DOMAIN r
               ELSE /\ "error" \in DOMAIN r
                    /\ DOMAIN r \cap AllResourceKeys = {}
                    /\ \A k \in 1..Len(r.error) : r.error[k] \in STRING

\* The remote service raised an exception other than GoogleAdsException and the
\* tool returned a failure.
C3_Witness ==
    /\ pc = "done" /\ raised # <<>>
    /\ raised[1].kind = "Exception"
    /\ ~result[1].success

\* C4: when the remote service raised a GoogleAdsException, 'error' is its
\* errors in their order, each '<error_code>: <message>', separated by '; '
\* (str(ex) when it carries no error); for any other exception it is str(ex).
C4_ErrorFlattening ==
    (pc = "done" /\ raised # <<>>) =>
        LET ex == raised[1]
            e == result[1].error
        IN  IF ex.kind = "GoogleAdsException" /\ ex.errors # <<>>
            THEN /\ Len(e) = 4 * Len(ex.errors) - 1
                 /\ \A i \in 1..Len(ex.errors) :
                       /\ e[4 * i - 3] = ex.errors[i].error_code
                       /\ e[4 * i - 2] = ": "
                       /\ e[4 * i - 1] = ex.errors[i].message
                       /\ (i < Len(ex.errors) => e[4 * i] = "; ")
            ELSE e = ex.str

\* A GoogleAdsException with two different errors was flattened.
C4_Witness ==
    /\ pc = "done" /\ raised # <<>>
    /\ raised[1].kind = "GoogleAdsException"
    /\ Len(raised[1].errors) = 2
    /\ raised[1].errors[1] # raised[1].errors[2]
    /\ Len(result[1].error) = 7

Rsa == tool = "create_responsive_search_ad"

\* C5: create_responsive_search_ad with fewer than 3 headlines returns the
\* headlines failure (also when the descriptions are too few); with 3 or more
\* headlines and fewer than 2 descriptions it returns the descriptions
\* failure; in both cases no remote call is made; a mutate request is
\* submitted only with at least 3 headlines and at least 2 descriptions.
C5_RsaValidation ==
    Rsa =>
        /\ (Len(args.headlines) < 3 =>
              /\ pc = "done" /\ nMutate = 0 /\ nSearch = 0 /\ sent = <<>>
              /\ result[1] =
                    [success |-> FALSE,
                     error |-> <<"At least 3 headlines are required for a responsive search ad">>])
        /\ (Len(args.headlines) >= 3 /\ Len(args.descriptions) < 2 =>
              /\ pc = "done" /\ nMutate = 0 /\ nSearch = 0 /\ sent = <<>>
              /\ result[1] =
                    [success |-> FALSE,
                     error |-> <<"At least 2 descriptions are required for a responsive search ad">>])
        /\ (nMutate > 0 => Len(args.headlines) >= 3 /\ Len(args.descriptions) >= 2)
        /\ (Len(args.headlines) >= 3 /\ Len(args.descriptions) >= 2 => nMutate = 1)

\* Both checks fail and the headlines failure is the one returned.
C5_Witness ==
    /\ Rsa /\ pc = "done"
    /\ Len(args.headlines) = 2 /\ Len(args.descriptions) = 1
    /\ result[1].error = HeadlinesError

Upd == tool = "update_campaign"

\* The rows of a stream that carry a budget resource name.
BudgetsFound(stream) ==
    {<<i, j>> \in (1..Len(stream)) \X (1..2) :
        j <= Len(stream[i]) /\ stream[i][j] # <<>>}

\* C6: update_campaign with status, name and budget_amount_micros all None
\* returns the 'At least one field ...' failure without any remote call; no
\* mutate request of update_campaign has zero operations; when only the budget
\* is to change and the query finds no budget, it returns 'No valid updates to
\* perform' without a mutate.
C6_UpdatePreconditions ==
    Upd =>
        /\ (IsNone(args.status) /\ IsNone(args.name) /\ IsNone(args.budget_amount_micros) =>
              /\ pc = "done" /\ nSearch = 0 /\ nMutate = 0
              /\ result[1] =
                    [success |-> FALSE,
                     error |-> <<"At least one field to update must be provided (status, name, or budget_amount_micros)">>])
        /\ \A r \in Requests : Len(r.mutate_operations) > 0
        /\ (/\ IsNone(args.status) /\ IsNone(args.name)
            /\ search_result # <<>> /\ BudgetsFound(search_result[1]) = {}
            =>  /\ pc = "done" /\ nMutate = 0
                /\ result[1] = [success |-> FALSE, error |-> <<"No valid updates to perform">>])

\* Only the budget was to change and the query found none.
C6_Witness ==
    /\ Upd /\ pc = "done"
    /\ IsNone(args.status) /\ IsNone(args.name) /\ ~IsNone(args.budget_amount_micros)
    /\ search_result # <<>> /\ BudgetsFound(search_result[1]) = {}
    /\ result[1].error = NoValidUpdatesError

BudgetSuccess ==
    /\ Upd /\ pc = "done"
    /\ ~IsNone(args.budget_amount_micros)
    /\ result[1].success

BudgetOpsSent == OpsOf(sent[1], "campaign_budget_operation", "update")

\* C7 as stated: update_campaign called with budget_amount_micros that returns
\* success True has submitted a budget update operation setting amount_micros
\* to the given value, and reports budget_updated True.
C7_BudgetAlwaysUpdated ==
    BudgetSuccess =>
        /\ result[1].budget_updated
        /\ \E i \in BudgetOpsSent :
              sent[1].mutate_operations[i].amount_micros = args.budget_amount_micros[1]

\* C7 amended: on such a success, budget_updated is True exactly when the
\* first row of the first batch of the query carries a budget resource name;
\* then the request has one budget update operation, on that resource, setting
\* amount_micros to the given value; otherwise the request has no budget
\* operation, status or name was given, and budget_updated is False.
C7_BudgetUpdatedIffFound ==
    BudgetSuccess =>
        LET stream == search_result[1]
            found == Len(stream) > 0 /\ Len(stream[1]) > 0 /\ stream[1][1] # <<>>
        IN  /\ result[1].budget_updated = found
            /\ IF found
               THEN /\ Cardinality(BudgetOpsSent) = 1
                    /\ \A i \in BudgetOpsSent :
                          /\ sent[1].mutate_operations[i].amount_micros = args.budget_amount_micros[1]
                          /\ sent[1].mutate_operations[i].resource_name = stream[1][1]
               ELSE /\ BudgetOpsSent = {}
                    /\ (~IsNone(args.status) \/ ~IsNone(args.name))

\* A success with the budget found and updated on the platform.
C7_Witness ==
    /\ BudgetSuccess
    /\ result[1].budget_updated
    /\ platform.amount_micros = args.budget_amount_micros[1]

\* C8: no request of create_responsive_search_ad sets path2 without path1.
C8_Path2OnlyWithPath1 ==
    Rsa => \A r \in Requests :
              \A i \in 1..Len(r.mutate_operations) :
                 r.mutate_operations[i].path2 # None => r.mutate_operations[i].path1 # None

CreatedOf(k) == {r \in platform.created : r.kind = k}

\* C9: create_campaign's one request is the budget creation followed by the
\* campaign creation, the campaign pointing at the budget's temporary name
\* customers/<customer_id>/campaignBudgets/-1; budgets and campaigns are
\* created in pairs (never one without the other); a success takes
\* budget_resource_name from the first response and campaign_resource_name
\* from the second.
C9_BudgetAndCampaignTogether ==
    /\ (tool = "create_campaign" =>
          \A r \in Requests :
             LET ops == r.mutate_operations
             IN  /\ Len(ops) = 2
                 /\ ops[1].kind = "campaign_budget_operation" /\ ops[1].op = "create"
                 /\ ops[2].kind = "campaign_operation" /\ ops[2].op = "create"
                 /\ ops[2].campaign_budget = ops[1].resource_name
                 /\ ops[1].resource_name =
                       <<"customers", args.customer_id, "campaignBudgets", "-1">>)
    /\ Cardinality(CreatedOf("campaignBudgets")) = Cardinality(CreatedOf("campaigns"))
    /\ \A c \in CreatedOf("campaigns") :
          \E b \in CreatedOf("campaignBudgets") : c.ref[3] = "campaignBudgets" /\ c.ref[4] = b.id
    /\ (tool = "create_campaign" /\ pc = "done" /\ result[1].success =>
          /\ result[1].budget_resource_name = response[1][1].resource_name
          /\ result[1].campaign_resource_name = response[1][2].resource_name
          /\ \E b \in CreatedOf("campaignBudgets") : b.id = result[1].budget_resource_name[4]
          /\ \E c \in CreatedOf("campaigns") :
                c.id = result[1].campaign_resource_name[4]
                /\ c.ref = result[1].budget_resource_name)

\* A create_campaign that succeeded: the pair exists on the platform.
C9_Witness ==
    /\ tool = "create_campaign" /\ pc = "done"
    /\ result[1].success
    /\ CreatedOf("campaigns") # {}

MaskSet(op) == {op.update_mask[i] : i \in 1..Len(op.update_mask)}

C10_Request ==
    Upd => \A r \in Requests :
        LET ops == r.mutate_operations
            camp == OpsOf(r, "campaign_operation", "update")
            budg == OpsOf(r, "campaign_budget_operation", "update")
        IN  /\ camp \cup budg = 1..Len(ops)
            /\ Cardinality(camp) = IF ~IsNone(args.status) \/ ~IsNone(args.name) THEN 1 ELSE 0
            /\ \A i \in camp :
                  /\ ("status" \in MaskSet(ops[i])) = ~IsNone(args.status)
                  /\ ("name" \in MaskSet(ops[i])) = ~IsNone(args.name)
                  /\ MaskSet(ops[i]) \subseteq {"status", "name"}
                  /\ Len(ops[i].update_mask) = Cardinality(MaskSet(ops[i]))
            /\ Cardinality(budg) <= 1
            /\ (budg # {} => ~IsNone(args.budget_amount_micros))
            /\ \A i \in budg : ops[i].update_mask = <<"amount_micros">>

C10_Frame ==
    Upd =>
        /\ (IsNone(args.status) => platform'.status = platform.status)
        /\ (IsNone(args.name) => platform'.name = platform.name)
        /\ (IsNone(args.budget_amount_micros) =>
               platform'.amount_micros = platform.amount_micros)
        /\ platform'.created = platform.created

\* C10: update_campaign's campaign operation is present iff status or name
\* was given and its update mask is exactly the given ones of 'status' and
\* 'name'; a budget operation is present only if budget_amount_micros was
\* given and its mask is exactly 'amount_micros'; no step of the invocation
\* changes a platform field that was not given.
C10_OnlyProvidedFields == [](C10_Request) /\ [][C10_Frame]_vars

\* An update of the name alone took effect and left status and budget alone.
C10_Witness ==
    /\ Upd /\ pc = "done" /\ result[1].success
    /\ IsNone(args.status) /\ ~IsNone(args.name) /\ IsNone(args.budget_amount_micros)
    /\ platform.name = args.name[1]
    /\ platform.status = "ENABLED" /\ platform.amount_micros = 0

====
